---- MODULE Spec2Model ----
(***************************************************************************)
(* The holofoil showcase: the shader hot-reload protocol between the       *)
(* debouncer thread (Watcher::new), the compile thread it spawns and the   *)
(* render thread (Holofoil::prepare / Holofoil::draw), and the teardown of *)
(* the Watcher (impl Drop for Watcher).                                    *)
(*                                                                         *)
(* Option<T> is a sequence of length at most one: None is <<>> and         *)
(* Some(x) is <<x>>.  A Pipeline is identified by the number of the build  *)
(* that created it (0: the one built by Holofoil::initialize) and carries  *)
(* the version of shader.wgsl it was compiled from.                        *)
(*                                                                         *)
(* The Renderer belongs to the primitive type: every Viewer widget of the  *)
(* application hands its own Cache to the Holofoil primitives it draws,    *)
(* and all of them are prepared and drawn against the one Renderer.        *)
(***************************************************************************)
EXTENDS Integers, Sequences, FiniteSets, TLC

\* Number of Viewer widgets (each owns one Cache) drawn per frame.
NumViewers == 2
\* Number of edits of shader.wgsl the environment makes.
MaxEdits == 2
\* Largest side, in pixels, of a layer handed to Pipeline::upload.
MaxSize == 2
\* Largest Structure.width handed to Pipeline::upload.
MaxWidth == 3
\* Euler angles are whole numbers of steps of pi / AngleSteps.
AngleSteps == 12
\* Number of times the fold of to_euler is applied in a row.
MaxFolds == 3
\* The last Instant at which Showcase::update is called.
MaxNow == 2
\* Number of Reload events that the winit example acts on.
MaxReloads == 2

Viewers == 1..NumViewers

\* Values of Configuration.n_samples the quality slider is moved between.
Samples == {1, 2}

\* Files of the watched directory.
Files == {"shader.wgsl", "lib.rs"}

\* Widget bounds handed to Holofoil::prepare (already scaled).
Bounds == {[x |-> 0, y |-> 0, width |-> w, height |-> h] : w \in 0..1, h \in 0..1}

None == <<>>
Some(x) == <<x>>

VARIABLES
    source,         \* version of shader.wgsl on disk
    events,         \* TRUE: the debouncer holds an undelivered change of shader.wgsl
    worker,         \* the debouncer callback and the compile thread it joins
    building,       \* version of shader.wgsl the running compile has read
    built,          \* Option<Pipeline>: what the compile thread returned
    builds,         \* number of Pipelines built by the watcher so far
    channel,        \* the mpsc channel: Pipelines sent and not yet received
    pipeline,       \* Renderer.pipeline
    cache,          \* cache[v]: Cache.card of Viewer v, Option<Card>
    configuration,  \* configuration[v]: Viewer.configuration.n_samples
    phase,          \* where the render thread is in the frame
    idx,            \* the primitive the render thread handles next
    teardown,       \* "running", "sleeping" (in Watcher::drop), "released"
    trace,          \* the calls on Pipeline and Card made in the current frame
    call,           \* a call of the library made on its own: the function and its arguments
    outcome,        \* Option: what that call returned
    mode,           \* Showcase.mode
    viewer,         \* Showcase.viewer: rotation, euler, configuration
    now,            \* the Instant of the last call of Showcase::update
    message,        \* the Message that call handled
    winit,          \* the Showcase of the winit example: Loading or Ready
    exiting,        \* ActiveEventLoop::exiting()
    frame           \* Option: the render pass of the last redraw of the winit example

vars == <<source, events, worker, building, built, builds, channel, pipeline,
          cache, configuration, phase, idx, teardown, trace, call, outcome,
          mode, viewer, now, message, winit, exiting, frame>>

watcherVars == <<source, events, worker, building, built, builds>>
frameVars == <<pipeline, cache, configuration, phase, idx, trace>>
showcaseVars == <<watcherVars, frameVars, channel, teardown>>
libraryVars == <<call, outcome>>
updateVars == <<mode, viewer, now, message>>
windowVars == <<winit, exiting, frame>>

----------------------------------------------------------------------------
\* Pipeline and Card

\* load_wgsl!: a debug build reads shader.wgsl from disk when the Pipeline is built.
IncludedSource(onDisk) == 0
ReadSource(onDisk) == onDisk

\* Pipeline::new: a brand-new Pipeline; nothing has been written to its uniforms.
NewPipeline(id, version) == [id |-> id, version |-> version, configuration |-> None]

(***************************************************************************)
(* Vector and Quaternion. An f32 is modelled by an exact fraction <<n, d>> *)
(* in lowest terms with d > 0, so that the arithmetic is the arithmetic    *)
(* the f32 operations round; <<0, 0>> is the NaN and <<1, 0>>, <<-1, 0>>   *)
(* are the infinities that a division by zero returns.                     *)
(***************************************************************************)
Abs(n) == IF n < 0 THEN -n ELSE n
Sign(n) == IF n < 0 THEN -1 ELSE IF n = 0 THEN 0 ELSE 1

RECURSIVE GCD(_, _)
GCD(a, b) == IF b = 0 THEN a ELSE GCD(b, a % b)

\* n / d in lowest terms, for d > 0.
Fraction(n, d) == LET g == GCD(Abs(n), d) IN <<n \div g, d \div g>>
Num(n) == <<n, 1>>
NaN == <<0, 0>>

\* +, -, * and / of f32, and f32::sqrt (on the squares of fractions).
FAdd(p, q) == Fraction(p[1] * q[2] + q[1] * p[2], p[2] * q[2])
FSub(p, q) == Fraction(p[1] * q[2] - q[1] * p[2], p[2] * q[2])
FMul(p, q) == Fraction(p[1] * q[1], p[2] * q[2])
FDiv(p, q) ==
    IF q[1] = 0 THEN <<Sign(p[1]), 0>>
    ELSE Fraction(Sign(q[1]) * p[1] * q[2], p[2] * Abs(q[1]))
ISqrt(n) == CHOOSE k \in 0..n : k * k = n
FSqrt(p) == <<ISqrt(p[1]), ISqrt(p[2])>>

\* Vector { x, y, z }, Vector::X, Vector::Y, Vector::Z and Vector::default().
Vec(x, y, z) == [x |-> x, y |-> y, z |-> z]
VectorX == Vec(Num(1), Num(0), Num(0))
VectorY == Vec(Num(0), Num(1), Num(0))
VectorZ == Vec(Num(0), Num(0), Num(1))
VectorDefault == Vec(Num(0), Num(0), Num(0))

\* Vector::cross.
CrossMirrored(v, rhs) ==
    Vec(FSub(FMul(v.y, rhs.z), FMul(v.z, rhs.y)),
        FSub(FMul(v.x, rhs.z), FMul(v.z, rhs.x)),
        FSub(FMul(v.x, rhs.y), FMul(v.y, rhs.x)))
Cross(v, rhs) ==
    Vec(FSub(FMul(v.y, rhs.z), FMul(v.z, rhs.y)),
        FSub(FMul(v.z, rhs.x), FMul(v.x, rhs.z)),
        FSub(FMul(v.x, rhs.y), FMul(v.y, rhs.x)))

\* Vector::dot.
Dot(v, rhs) == FAdd(FAdd(FMul(v.x, rhs.x), FMul(v.y, rhs.y)), FMul(v.z, rhs.z))

\* Add, Mul<f32> and Div<f32> for Vector.
VAdd(v, rhs) == Vec(FAdd(v.x, rhs.x), FAdd(v.y, rhs.y), FAdd(v.z, rhs.z))
VMul(v, rhs) == Vec(FMul(v.x, rhs), FMul(v.y, rhs), FMul(v.z, rhs))
VDiv(v, rhs) == Vec(FDiv(v.x, rhs), FDiv(v.y, rhs), FDiv(v.z, rhs))

\* The angles handed to from_radians, by name: a = asin(3/5) and
\* b = asin(4/5) are the angles whose sine and cosine are fractions.
Angles == {"0", "pi", "-pi", "2pi", "2a", "-2a", "2b", "-2b"}

\* -angle / 2.0
NegHalf(angle) ==
    ("0" :> "0" @@ "pi" :> "-pi/2" @@ "-pi" :> "pi/2" @@ "2pi" :> "-pi"
     @@ "2a" :> "-a" @@ "-2a" :> "a" @@ "2b" :> "-b" @@ "-2b" :> "b")[angle]

\* f32::sin and f32::cos.
Sin(angle) ==
    ("0" :> Num(0) @@ "-pi/2" :> Num(-1) @@ "pi/2" :> Num(1) @@ "-pi" :> Num(0)
     @@ "-a" :> <<-3, 5>> @@ "a" :> <<3, 5>> @@ "-b" :> <<-4, 5>> @@ "b" :> <<4, 5>>)[angle]
Cos(angle) ==
    ("0" :> Num(1) @@ "-pi/2" :> Num(0) @@ "pi/2" :> Num(0) @@ "-pi" :> Num(-1)
     @@ "-a" :> <<4, 5>> @@ "a" :> <<4, 5>> @@ "-b" :> <<3, 5>> @@ "b" :> <<3, 5>>)[angle]

\* Quaternion { a, w }.
Quat(a, w) == [a |-> a, w |-> w]

\* Quaternion::from_radians.
FromRadiansSwapped(a, angle) ==
    LET half == NegHalf(angle) IN Quat(VMul(a, Cos(half)), Sin(half))
FromRadians(a, angle) ==
    LET half == NegHalf(angle) IN Quat(VMul(a, Sin(half)), Cos(half))

\* Quaternion::normalize: nothing guards the division against d = 0.
NormalizeVectorOnly(q) ==
    LET d == FSqrt(FAdd(Dot(q.a, q.a), FMul(q.w, q.w))) IN Quat(VDiv(q.a, d), q.w)
Normalize(q) ==
    LET d == FSqrt(FAdd(Dot(q.a, q.a), FMul(q.w, q.w))) IN Quat(VDiv(q.a, d), FDiv(q.w, d))

\* Quaternion::default().
QuaternionDefault == Quat(VectorDefault, Num(1))

\* Mul for Quaternion.
QMulPlusDot(q, rhs) ==
    Quat(VAdd(VAdd(VMul(q.a, rhs.w), VMul(rhs.a, q.w)), Cross(q.a, rhs.a)),
         FAdd(FMul(q.w, rhs.w), Dot(q.a, rhs.a)))
QMul(q, rhs) ==
    Quat(VAdd(VAdd(VMul(q.a, rhs.w), VMul(rhs.a, q.w)), Cross(q.a, rhs.a)),
         FSub(FMul(q.w, rhs.w), Dot(q.a, rhs.a)))

\* The angles of to_euler are asin and atan2 results: they lie in [-pi, pi].
\* An angle is a whole number of steps of pi / AngleSteps.
Pi == AngleSteps
EulerAngles == (-Pi)..Pi

\* f32::rem_euclid for a positive modulus: the remainder in [0, m).
RemEuclid(a, m) == a % m

\* The closure `normalize` of Quaternion::to_euler.
NormalizeAngleUnwrapped(angle) ==
    IF angle < 0 THEN -angle ELSE 2 * Pi - angle
NormalizeAngleHalfTurn(angle) ==
    IF angle < 0 THEN -angle ELSE RemEuclid(2 * Pi - angle, Pi)
NormalizeAngle(angle) ==
    IF angle < 0 THEN -angle ELSE RemEuclid(2 * Pi - angle, 2 * Pi)

\* f32 comparison and f32::clamp.
FLess(p, q) == p[1] * q[2] < q[1] * p[2]
Clamp(x, lo, hi) == IF FLess(x, lo) THEN lo ELSE IF FLess(hi, x) THEN hi ELSE x

\* f32::asin and f32::atan2, in steps of pi / AngleSteps, on the values they
\* are given for a quaternion with one component of 1 or -1 and zeros.
Asin(x) == CASE x = Num(0) -> 0
Atan2(y, x) ==
    CASE y = Num(0) /\ FLess(Num(0), x) -> 0
      [] y = Num(0) /\ FLess(x, Num(0)) -> Pi

\* Quaternion::to_euler: the three angles, each folded by the closure.
ToEulerUnfolded(q) ==
    Vec(Asin(Clamp(FMul(Num(2), FSub(FMul(q.w, q.a.x), FMul(q.a.y, q.a.z))),
                   Num(-1), Num(1))),
        Atan2(FMul(Num(2), FAdd(FMul(q.w, q.a.y), FMul(q.a.z, q.a.x))),
              FSub(Num(1), FMul(Num(2), FAdd(FMul(q.a.x, q.a.x), FMul(q.a.y, q.a.y))))),
        Atan2(FMul(Num(2), FAdd(FMul(q.w, q.a.z), FMul(q.a.x, q.a.y))),
              FSub(Num(1), FMul(Num(2), FAdd(FMul(q.a.x, q.a.x), FMul(q.a.z, q.a.z))))))
ToEuler(q) ==
    LET angles == ToEulerUnfolded(q)
    IN Vec(NormalizeAngle(angles.x), NormalizeAngle(angles.y), NormalizeAngle(angles.z))

\* The angle of k half turns as from_radians takes it: sin and cos of
\* -angle / 2 come back after four half turns.
HalfTurns(k) ==
    CASE k % 4 = 0 -> "0"
      [] k % 4 = 1 -> "pi"
      [] k % 4 = 2 -> "2pi"
      [] k % 4 = 3 -> "-pi"

\* A pixel buffer is modelled by its length in bytes: Image { rgba, size } and
\* Mask { pixels, size } become [size, len]. The lengths drawn for a buffer
\* are the empty one and the ones around size * size * bytes-per-pixel.
LenChoices(size, bpp) ==
    {l \in {0, size * size * bpp - 1, size * size * bpp, size * size * bpp + 1} : l >= 0}
Images == {[size |-> s, len |-> l] : s \in 1..MaxSize, l \in 0..(MaxSize * MaxSize * 4 + 1)}
Layers == {i \in Images : i.len \in LenChoices(i.size, 4)}
Masks == {i \in Images : i.len \in LenChoices(i.size, 1)}
Structures ==
    {[base |-> b, foil |-> f, etching |-> e, width |-> w] :
        b \in Layers,
        f \in {None} \cup {Some(m) : m \in Masks},
        e \in {None} \cup {Some(m) : m \in Masks},
        w \in 1..MaxWidth}

\* umbreon(): the Structure the showcase uploads, with a foil, an etching and
\* a width of 733. load_image and load_mask decode a PNG, so every buffer has
\* the length its size asks for; the side of the pictures is scaled down to 1.
Umbreon ==
    [base |-> [size |-> 1, len |-> 4], foil |-> Some([size |-> 1, len |-> 1]),
     etching |-> Some([size |-> 1, len |-> 1]), width |-> 733]

\* Bytes per pixel of the two texture formats in use.
BlockSize(format) == IF format = "Rgba8UnormSrgb" THEN 4 ELSE 1

\* DeviceExt::create_texture_with_data: the texture is written from the first
\* size * size * block bytes of the data, and slicing a shorter buffer panics.
\* None is the panic, Some(texture) the texture.
CreateTextureWithData(desc, len) ==
    IF len < desc.size * desc.size * BlockSize(desc.format) THEN None ELSE Some(desc)

\* Image::upload and Mask::upload; id tells the textures of one Card apart.
ImageUploadAsMask(image, id) ==
    CreateTextureWithData([id |-> id, size |-> image.size, format |-> "R8Unorm"], image.len)
ImageUpload(image, id) ==
    CreateTextureWithData([id |-> id, size |-> image.size, format |-> "Rgba8UnormSrgb"], image.len)
MaskUpload(mask, id) ==
    CreateTextureWithData([id |-> id, size |-> mask.size, format |-> "R8Unorm"], mask.len)

\* Texture::create_view and Option::unwrap_or.
CreateView(texture) == [view_of |-> texture.id]
UnwrapOr(option, default) == IF option = None THEN default ELSE option[1]

\* The entries of the bind group made by Pipeline::upload.
BindingFoilTwice(base_view, foil_view, etching_view) ==
    (0 :> base_view @@ 1 :> UnwrapOr(foil_view, base_view)
                    @@ 2 :> UnwrapOr(foil_view, base_view))
Binding(base_view, foil_view, etching_view) ==
    (0 :> base_view @@ 1 :> UnwrapOr(foil_view, base_view)
                    @@ 2 :> UnwrapOr(etching_view, base_view))

\* The width and height Pipeline::upload records in the Card.
DimensionsOfBase(definition) ==
    [width |-> definition.base.size, height |-> definition.base.size]
Dimensions(definition) ==
    [width |-> definition.width, height |-> definition.base.size]

\* mem::size_of::<Instance>(): ten f32 of four bytes, repr(C), no padding.
SizeOfInstance == 4 * (4 + 2 + 4)

\* Device::create_buffer: a zeroed buffer of f32 words. device counts the
\* buffers created before, so that id names the buffer: handles with the same
\* id are handles of one buffer.
CreateBuffer(device, size) ==
    [id |-> device, size |-> size, words |-> [i \in 1..(size \div 4) |-> Num(0)]]

\* Queue::write_buffer: the words of data replace the words of the buffer from
\* the byte offset on; None when the data does not fit (a validation error).
WriteBuffer(buffer, offset, data) ==
    IF offset + 4 * Len(data) > buffer.size
    THEN None
    ELSE Some([buffer EXCEPT !.words =
                  [i \in 1..Len(buffer.words) |->
                      IF i > offset \div 4 /\ i <= offset \div 4 + Len(data)
                      THEN data[i - offset \div 4]
                      ELSE buffer.words[i]]])

\* Pipeline::upload: None when the upload of a layer panicked, else Some(Card).
\* The Card's binding is built against this Pipeline's layout, and nothing has
\* been written to its instance buffer yet.
Upload(p, device, definition) ==
    LET base    == ImageUpload(definition.base, "base")
        foil    == IF definition.foil = None THEN Some(None)
                   ELSE LET t == MaskUpload(definition.foil[1], "foil")
                        IN IF t = None THEN None ELSE Some(t)
        etching == IF definition.etching = None THEN Some(None)
                   ELSE LET t == MaskUpload(definition.etching[1], "etching")
                        IN IF t = None THEN None ELSE Some(t)
    IN IF base = None \/ foil = None \/ etching = None
       THEN None
       ELSE LET base_view    == CreateView(base[1])
                foil_view    == IF foil[1] = None THEN None
                                ELSE Some(CreateView(foil[1][1]))
                etching_view == IF etching[1] = None THEN None
                                ELSE Some(CreateView(etching[1][1]))
            IN Some([layout   |-> p.id,
                     instance |-> CreateBuffer(device, SizeOfInstance),
                     base     |-> base[1],
                     foil     |-> foil[1],
                     etching  |-> etching[1],
                     binding  |-> Binding(base_view, foil_view, etching_view),
                     width    |-> Dimensions(definition).width,
                     height   |-> Dimensions(definition).height])

\* u32 as f32: exact below 2^24, which every size in pixels is.
AsF32(n) == Num(n)

\* Parameters { viewport, rotation }.
Parameters(viewport, rotation) == [viewport |-> viewport, rotation |-> rotation]

\* bytemuck::cast_slice(&[Instance { viewport, size, rotation }]): the ten
\* words of one instance record.
InstanceSizeFirst(card, parameters) ==
    <<AsF32(card.width), AsF32(card.height),
      AsF32(parameters.viewport.x), AsF32(parameters.viewport.y),
      AsF32(parameters.viewport.width), AsF32(parameters.viewport.height),
      parameters.rotation.a.x, parameters.rotation.a.y,
      parameters.rotation.a.z, parameters.rotation.w>>
Instance(card, parameters) ==
    <<AsF32(parameters.viewport.x), AsF32(parameters.viewport.y),
      AsF32(parameters.viewport.width), AsF32(parameters.viewport.height),
      AsF32(card.width), AsF32(card.height),
      parameters.rotation.a.x, parameters.rotation.a.y,
      parameters.rotation.a.z, parameters.rotation.w>>

\* Card::prepare: one instance record written at offset 0 of the instance
\* buffer. None when the write is refused.
CardPrepare(card, parameters) ==
    LET written == WriteBuffer(card.instance, 0, Instance(card, parameters))
    IN IF written = None THEN None ELSE Some([card EXCEPT !.instance = written[1]])

\* derive(Clone) for Card: every field is cloned, and the clone of a
\* wgpu::Buffer, wgpu::Texture or wgpu::BindGroup is one more handle of the
\* same resource.
CardClone(card) == card

\* a..b of Rust: a, a + 1, .., b - 1.
Range(a, b) == a..(b - 1)

\* Pipeline::render: the commands recorded in the render pass, in order.
RenderTriangle(p, card) ==
    <<[cmd |-> "set_pipeline", raw |-> p.id],
      [cmd |-> "set_bind_group", index |-> 0, group |-> [uniforms_of |-> p.id]],
      [cmd |-> "set_bind_group", index |-> 1, group |-> card.binding],
      [cmd |-> "set_vertex_buffer", slot |-> 0, buffer |-> card.instance],
      [cmd |-> "draw", vertices |-> Range(0, 3), instances |-> Range(0, 1)]>>
Render(p, card) ==
    <<[cmd |-> "set_pipeline", raw |-> p.id],
      [cmd |-> "set_bind_group", index |-> 0, group |-> [uniforms_of |-> p.id]],
      [cmd |-> "set_bind_group", index |-> 1, group |-> card.binding],
      [cmd |-> "set_vertex_buffer", slot |-> 0, buffer |-> card.instance],
      [cmd |-> "draw", vertices |-> Range(0, 6), instances |-> Range(0, 1)]>>


\* Pipeline::configure: the write is skipped when the value was the last written.
ConfigureAlways(p, c) == [pipeline |-> [p EXCEPT !.configuration = Some(c)], wrote |-> TRUE]
Configure(p, c) ==
    IF p.configuration = Some(c)
    THEN [pipeline |-> p, wrote |-> FALSE]
    ELSE [pipeline |-> [p EXCEPT !.configuration = Some(c)], wrote |-> TRUE]

\* Rectangle::snap: None when the rectangle has no pixel.
SnapAlways(b) == Some(b)
Snap(b) == IF b.width < 1 \/ b.height < 1 THEN None ELSE Some(b)

----------------------------------------------------------------------------
\* Watcher

\* mpsc::channel() is unbounded: Sender::send never waits for the receiver.
SendBlocksWhenFull(ch) == Len(ch) < 1
CanSend(ch) == TRUE

\* Sender::send appends to the queue.
SendOverwrites(ch, p) == <<p>>
Send(ch, p) == Append(ch, p)

\* Watcher::latest: try_iter().last() drains the queue and keeps its last element.
LatestIsNext(ch) ==
    IF ch = <<>> THEN [pipeline |-> None, rest |-> <<>>]
    ELSE [pipeline |-> Some(Head(ch)), rest |-> Tail(ch)]
Latest(ch) ==
    IF ch = <<>> THEN [pipeline |-> None, rest |-> <<>>]
    ELSE [pipeline |-> Some(ch[Len(ch)]), rest |-> <<>>]

\* events.iter().any(..): the batch holds a change of shader.wgsl.
Modified(batch) == "shader.wgsl" \in batch

\* thread::spawn(..).join(): Err when the compile thread panicked (a shader that
\* does not compile, or a shader.wgsl that cannot be read, panics in
\* Pipeline::new; the panic hook of the thread prints the message).
JoinAlwaysOk(state, result) == Some(NewPipeline(builds + 1, building))
Join(state, result) == IF state = "panicked" THEN None ELSE result

ShowcaseInit ==
    /\ source = 0
    /\ events = FALSE
    /\ worker = "idle"
    /\ building = 0
    /\ built = None
    /\ builds = 0
    /\ channel = <<>>
    /\ pipeline = NewPipeline(0, 0)
    /\ cache = [v \in Viewers |-> None]
    /\ configuration = [v \in Viewers |-> 1]
    /\ phase = "idle"
    /\ idx = 1
    /\ teardown = "running"
    /\ trace = <<>>

(***************************************************************************)
(* Showcase::update. Time is counted in frames of four seconds, so that    *)
(* the FRAC_PI_4 radians per second of Mode::spin are one half turn per    *)
(* frame and every rotation is exact; a spin is given in half turns per    *)
(* frame, an Euler angle in steps of pi / AngleSteps.                      *)
(***************************************************************************)

\* Mode::Idle and Mode::Spinning { spin, last_tick }.
Idle == [kind |-> "Idle", spin |-> [x |-> 0, y |-> 0], last_tick |-> 0]
Spinning(spin, last_tick) == [kind |-> "Spinning", spin |-> spin, last_tick |-> last_tick]

\* Mode::spin
ModeSpin(t) == Spinning([x |-> 1, y |-> 0], t)

\* Showcase::new
UpdateInit ==
    /\ mode = Idle
    /\ viewer = [rotation |-> QuaternionDefault, euler |-> Vec(0, 0, 0),
                 configuration |-> [n_samples |-> 1, max_iterations |-> 1]]
    /\ now = 0
    /\ message = "none"


(***************************************************************************)
(* The winit showcase (examples/showcase.rs): one thread handles resumed,  *)
(* window events and the Reload user event, one after the other.          *)
(***************************************************************************)

\* Showcase::Loading and Showcase::Ready { pipeline, card, size, .. }.
Loading == [state |-> "Loading", pipeline |-> None, card |-> None,
            size |-> [width |-> 0, height |-> 0]]
Ready(p, card, size) == [state |-> "Ready", pipeline |-> Some(p), card |-> Some(card),
                         size |-> size]

\* main: event_loop.run_app(&mut Showcase::Loading)
WindowInit ==
    /\ winit = Loading
    /\ exiting = FALSE
    /\ frame = None

\* No call of the library is made on its own while the showcase runs.
NoCall == [op |-> "none"]

Init ==
    /\ ShowcaseInit
    /\ call = NoCall
    /\ outcome = None
    /\ UpdateInit
    /\ WindowInit

\* The environment saves shader.wgsl; the notify watcher records the event.
Edit ==
    /\ source < MaxEdits
    /\ source' = source + 1
    /\ events' = TRUE
    /\ UNCHANGED <<worker, building, built, builds, channel, teardown>>
    /\ UNCHANGED frameVars
    /\ UNCHANGED <<libraryVars, updateVars, windowVars>>

\* The debouncer delivers a batch to the callback; the callback spawns the
\* compile thread when the batch holds a change of shader.wgsl.  The callback
\* runs on the debouncer thread and joins the compile thread, so the next
\* batch is delivered only after it has returned; changes made meanwhile wait
\* in the debouncer.  A batch of errors returns at once and changes nothing.
Callback(batch) ==
    /\ teardown = "running"
    /\ worker = "idle"
    /\ Modified(batch) => events
    /\ IF Modified(batch)
       THEN /\ events' = FALSE
            /\ worker' = "spawned"
       ELSE UNCHANGED <<events, worker>>
    /\ UNCHANGED <<source, building, built, builds, channel, teardown>>
    /\ UNCHANGED frameVars
    /\ UNCHANGED <<libraryVars, updateVars, windowVars>>

\* The compile thread reads the shader source.
CompileRead ==
    /\ worker = "spawned"
    /\ building' = ReadSource(source)
    /\ worker' = "compiling"
    /\ UNCHANGED <<source, events, built, builds, channel, teardown>>
    /\ UNCHANGED frameVars
    /\ UNCHANGED <<libraryVars, updateVars, windowVars>>

\* The compile thread ends: it returns a Pipeline or it panics.
CompileEnd(ok) ==
    /\ worker = "compiling"
    /\ IF ok
       THEN /\ worker' = "returned"
            /\ built' = Some(NewPipeline(builds + 1, building))
            /\ builds' = builds + 1
       ELSE /\ worker' = "panicked"
            /\ UNCHANGED <<built, builds>>
    /\ UNCHANGED <<source, events, building, channel, teardown>>
    /\ UNCHANGED frameVars
    /\ UNCHANGED <<libraryVars, updateVars, windowVars>>

\* join() returns in the callback; an Ok(pipeline) is sent, and the callback ends.
\* After the Watcher is gone the Receiver is gone and send returns an ignored Err.
JoinAndSend ==
    /\ worker \in {"returned", "panicked"}
    /\ LET joined == Join(worker, built) IN
       IF joined # None /\ teardown # "released"
       THEN /\ CanSend(channel)
            /\ channel' = Send(channel, joined[1])
       ELSE UNCHANGED channel
    /\ worker' = "idle"
    /\ built' = None
    /\ UNCHANGED <<source, events, building, builds, teardown>>
    /\ UNCHANGED frameVars
    /\ UNCHANGED <<libraryVars, updateVars, windowVars>>

----------------------------------------------------------------------------
\* Render thread

\* One call on the Pipeline or on a Card, as the frame made it:
\*   adopt      renderer.pipeline = pipeline   (arg: Pipelines received by the poll)
\*   upload     Pipeline::upload               (card: the layout of the new Card)
\*   configure  Pipeline::configure            (arg: the value, before: the value
\*                                              last written, wrote: a write was issued)
\*   prepare    Card::prepare                  (card: the layout of the Card)
\*   render     Pipeline::render               (card: the layout of the Card)
Call(op, v, p, card, arg, before, wrote) ==
    [op |-> op, viewer |-> v, pipeline |-> p, card |-> card, arg |-> arg,
     before |-> before, wrote |-> wrote]

Advance ==
    IF idx < NumViewers
    THEN /\ idx' = idx + 1
         /\ UNCHANGED phase
    ELSE /\ idx' = 1
         /\ phase' = IF phase = "prepare" THEN "draw" ELSE "present"

\* A redraw starts: every primitive is prepared, then every primitive is drawn.
BeginFrame ==
    /\ teardown = "running"
    /\ phase = "idle"
    /\ phase' = "prepare"
    /\ idx' = 1
    /\ trace' = <<>>
    /\ UNCHANGED <<pipeline, cache, configuration, channel, teardown>>
    /\ UNCHANGED watcherVars
    /\ UNCHANGED <<libraryVars, updateVars, windowVars>>

\* cache.card.take(): the Cache is left empty.
TakeLeavesCard(held) == held
Take(held) == None

\* cache.card = None, when the poll returned a Pipeline.
KeepCard(held) == held
Invalidate(held) == None

\* Holofoil::prepare
Prepare(v, bounds) ==
    /\ teardown = "running"
    /\ phase = "prepare"
    /\ idx = v
    /\ LET polled  == Latest(channel)
           adopted == polled.pipeline # None
           active  == IF adopted THEN polled.pipeline[1] ELSE pipeline
           held    == IF adopted THEN Invalidate(cache[v]) ELSE cache[v]
           left    == Take(held)
           miss    == held = None
           card    == IF miss THEN Upload(active, v, Umbreon)[1] ELSE held[1]
           snapped == Snap(bounds)
           t1      == trace
                      \o (IF adopted THEN <<Call("adopt", v, active.id, -1, Len(channel), None, FALSE)>> ELSE <<>>)
                      \o (IF miss THEN <<Call("upload", v, active.id, card.layout, 0, None, FALSE)>> ELSE <<>>)
       IN /\ channel' = polled.rest
          /\ IF snapped = None
             THEN /\ pipeline' = active
                  /\ cache' = [cache EXCEPT ![v] = left]
                  /\ trace' = t1
             ELSE LET conf == Configure(active, configuration[v]) IN
                  /\ pipeline' = conf.pipeline
                  /\ cache' = [cache EXCEPT ![v] =
                                   CardPrepare(card, Parameters(snapped[1], QuaternionDefault))]
                  /\ trace' = t1 \o
                       <<Call("configure", v, active.id, -1, configuration[v],
                              active.configuration, conf.wrote),
                         Call("prepare", v, active.id, card.layout, 0, None, TRUE)>>
    /\ Advance
    /\ UNCHANGED <<configuration, teardown>>
    /\ UNCHANGED watcherVars
    /\ UNCHANGED <<libraryVars, updateVars, windowVars>>

\* Holofoil::draw
Draw(v) ==
    /\ teardown = "running"
    /\ phase = "draw"
    /\ idx = v
    /\ IF cache[v] = None
       THEN UNCHANGED trace
       ELSE trace' = Append(trace, Call("render", v, pipeline.id, cache[v][1].layout, 0, None, FALSE))
    /\ Advance
    /\ UNCHANGED <<pipeline, cache, configuration, channel, teardown>>
    /\ UNCHANGED watcherVars
    /\ UNCHANGED <<libraryVars, updateVars, windowVars>>

\* The frame is submitted and presented.
Present ==
    /\ teardown = "running"
    /\ phase = "present"
    /\ phase' = "idle"
    /\ trace' = <<>>
    /\ UNCHANGED <<pipeline, cache, configuration, idx, channel, teardown>>
    /\ UNCHANGED watcherVars
    /\ UNCHANGED <<libraryVars, updateVars, windowVars>>

\* Showcase::update, Message::SamplesChanged
SamplesChanged(v, n) ==
    /\ teardown = "running"
    /\ phase = "idle"
    /\ configuration[v] # n
    /\ configuration' = [configuration EXCEPT ![v] = n]
    /\ UNCHANGED <<pipeline, cache, phase, idx, trace, channel, teardown>>
    /\ UNCHANGED watcherVars
    /\ UNCHANGED <<libraryVars, updateVars, windowVars>>

----------------------------------------------------------------------------
\* impl Drop for Watcher

\* The old debouncer is replaced (it delivers no further batch) and the
\* render thread sleeps 100 ms.
DropWatcher ==
    /\ teardown = "running"
    /\ phase = "idle"
    /\ teardown' = "sleeping"
    /\ UNCHANGED <<channel>>
    /\ UNCHANGED frameVars
    /\ UNCHANGED watcherVars
    /\ UNCHANGED <<libraryVars, updateVars, windowVars>>

\* The sleep is over: drop returns, the Receiver, the Pipeline and the device go.
SleepElapsed ==
    /\ teardown = "sleeping"
    /\ teardown' = "released"
    /\ channel' = <<>>
    /\ UNCHANGED frameVars
    /\ UNCHANGED watcherVars
    /\ UNCHANGED <<libraryVars, updateVars, windowVars>>

----------------------------------------------------------------------------
WatcherNext ==
    \/ Edit
    \/ \E batch \in (SUBSET Files) \ {{}} : Callback(batch)
    \/ CompileRead
    \/ \E ok \in BOOLEAN : CompileEnd(ok)
    \/ JoinAndSend

FrameNext ==
    \/ BeginFrame
    \/ \E v \in Viewers, b \in Bounds : Prepare(v, b)
    \/ \E v \in Viewers : Draw(v)
    \/ Present

Next ==
    \/ WatcherNext
    \/ FrameNext
    \/ \E v \in Viewers, n \in Samples : SamplesChanged(v, n)
    \/ DropWatcher
    \/ SleepElapsed

Spec == Init /\ [][Next]_vars

\* The hot-reload protocol while the application runs and the render loop
\* keeps redrawing: no teardown, and the quality slider is left alone.
LiveNext ==
    \/ WatcherNext
    \/ FrameNext

\* The debouncer thread and the compile thread run, and while the showcase is
\* Spinning the window::frames subscription asks for frame after frame.
FairSpec ==
    /\ Init
    /\ [][LiveNext]_vars
    /\ WF_vars(\E batch \in (SUBSET Files) \ {{}} : Callback(batch))
    /\ WF_vars(CompileRead)
    /\ WF_vars(\E ok \in BOOLEAN : CompileEnd(ok))
    /\ WF_vars(JoinAndSend)
    /\ WF_vars(FrameNext)

----------------------------------------------------------------------------
\* Properties

\* The step is a call of Holofoil::prepare.
PrepareStep == phase = "prepare" /\ (idx' # idx \/ phase' # phase)

\* The number of the Pipeline sent last (0: none was sent).
LastSent == IF worker = "returned" THEN builds - 1 ELSE builds

Calls(op) == {i \in 1..Len(trace) : trace[i].op = op}

C2_LatestWins ==
    [][/\ \A i \in 1..Len(channel) : channel[i].id > pipeline.id
       /\ PrepareStep /\ channel # <<>> =>
            /\ pipeline'.id = LastSent
            /\ channel' = <<>>
            /\ \A i \in 1..Len(channel) : channel[i].id <= pipeline'.id]_vars

\* A poll received two Pipelines at once and the newest is the active one.
C2_Witness ==
    \E i \in Calls("adopt") :
        /\ trace[i].arg >= 2
        /\ pipeline.id = LastSent
        /\ trace[i].pipeline = pipeline.id

\* C3: only a call of prepare changes the active Pipeline; a prepare that finds
\* the channel empty keeps the active Pipeline; the first prepare after a
\* send adopts the new Pipeline, which is newer than every Pipeline adopted
\* before (so it is adopted once), and uploads the Card of its Cache again.
C3_HotReloadTiming ==
    [][IF PrepareStep
       THEN IF channel = <<>>
            THEN /\ pipeline'.id = pipeline.id
                 /\ Calls("adopt")' = Calls("adopt")
            ELSE /\ pipeline'.id = channel[Len(channel)].id
                 /\ pipeline'.id > pipeline.id
                 /\ \E i \in Calls("upload")' \ Calls("upload") :
                        /\ trace'[i].viewer = idx
                        /\ trace'[i].card = pipeline'.id
                 /\ cache'[idx] # None => cache'[idx][1].layout = pipeline'.id
       ELSE pipeline' = pipeline]_vars

\* A frame adopted a Pipeline built by the watcher and prepared a Card that
\* had been cached in an earlier frame and was uploaded again in this one.
C3_Witness ==
    \E i \in Calls("adopt"), j \in Calls("prepare") :
        /\ i < j
        /\ trace[i].viewer = trace[j].viewer
        /\ trace[j].card = trace[i].pipeline
        /\ trace[i].pipeline >= 1

C5_NonBlockingHandoff ==
    /\ phase = "prepare" /\ teardown = "running" =>
            ENABLED (\E b \in Bounds : Prepare(idx, b))
    /\ worker \in {"returned", "panicked"} => ENABLED JoinAndSend

\* The callback is about to send while an unconsumed Pipeline is in the channel.
C5_Witness ==
    /\ worker = "returned"
    /\ Len(channel) >= 1

C8_QuiescedBeforeRelease == teardown = "released" => worker = "idle"

C10_PrepareBeforeDraw ==
    \A j \in Calls("render") :
        /\ \E i \in Calls("configure") : i < j /\ trace[i].viewer = trace[j].viewer
        /\ \E i \in Calls("prepare") : i < j /\ trace[i].viewer = trace[j].viewer

\* A frame has drawn the Cards of two primitives.
C10_Witness == Cardinality(Calls("render")) >= 2

(***************************************************************************)
(* Pipeline::upload, Card::prepare and Pipeline::render called on their    *)
(* own: one Structure is drawn, uploaded, and the Card that comes back is  *)
(* prepared and rendered into one render pass.                             *)
(***************************************************************************)

\* The Pipeline the calls are made on.
LibraryPipeline == NewPipeline(1, 0)

\* Parameters handed to Card::prepare.
Rotations == {QuaternionDefault, FromRadians(VectorY, "2a")}
Viewports ==
    {[x |-> 0, y |-> 0, width |-> 1, height |-> 1],
     [x |-> 1, y |-> 2, width |-> 3, height |-> 4]}
PrepareParameters == {Parameters(b, r) : b \in Viewports, r \in Rotations}

CardInit ==
    /\ ShowcaseInit
    /\ call \in {[op |-> "upload", definition |-> d] : d \in Structures}
    /\ outcome = None
    /\ UpdateInit
    /\ WindowInit

\* pipeline.upload(device, queue, &definition): a panic leaves no Card.
UploadCall ==
    /\ call.op = "upload"
    /\ outcome = None
    /\ LET card == Upload(LibraryPipeline, 1, call.definition)
       IN outcome' = Some([panicked |-> card = None, card |-> card, other |-> None,
                           last |-> None, pass |-> <<>>])
    /\ UNCHANGED <<call, showcaseVars, updateVars, windowVars>>

\* A second Card of the same Pipeline, from one more upload of the Structure.
UploadAgain ==
    /\ call.op = "upload"
    /\ outcome # None
    /\ outcome[1].card # None
    /\ outcome[1].other = None
    /\ outcome' = Some([outcome[1] EXCEPT
                           !.other = Upload(LibraryPipeline, 2, call.definition)])
    /\ UNCHANGED <<call, showcaseVars, updateVars, windowVars>>

\* A second Card of the same Pipeline, from card.clone().
CloneCall ==
    /\ call.op = "upload"
    /\ outcome # None
    /\ outcome[1].card # None
    /\ outcome[1].other = None
    /\ outcome' = Some([outcome[1] EXCEPT !.other = Some(CardClone(outcome[1].card[1]))])
    /\ UNCHANGED <<call, showcaseVars, updateVars, windowVars>>

\* What is seen through a Card after the buffer of `written` was written: a
\* handle of that buffer shows the new words.
Seen(held, written) ==
    IF held # None /\ held[1].instance.id = written.instance.id
    THEN Some([held[1] EXCEPT !.instance = written.instance])
    ELSE held

\* card.prepare(queue, parameters) on the first or on the second Card.
PrepareCall(which, parameters) ==
    /\ call.op = "upload"
    /\ outcome # None
    /\ outcome[1].pass = <<>>
    /\ LET target   == IF which = "card" THEN outcome[1].card ELSE outcome[1].other
           prepared == CardPrepare(target[1], parameters)
       IN /\ target # None
          /\ prepared # None
          /\ outcome' = Some([outcome[1] EXCEPT
                                 !.card  = IF which = "card" THEN prepared
                                           ELSE Seen(outcome[1].card, prepared[1]),
                                 !.other = IF which = "other" THEN prepared
                                           ELSE Seen(outcome[1].other, prepared[1]),
                                 !.last  = Some([which |-> which, parameters |-> parameters])])
    /\ UNCHANGED <<call, showcaseVars, updateVars, windowVars>>

\* pipeline.render(&mut render_pass, &card) into a fresh render pass.
RenderCall ==
    /\ call.op = "upload"
    /\ outcome # None
    /\ outcome[1].card # None
    /\ outcome[1].pass = <<>>
    /\ outcome' = Some([outcome[1] EXCEPT
                           !.pass = Render(LibraryPipeline, outcome[1].card[1])])
    /\ UNCHANGED <<call, showcaseVars, updateVars, windowVars>>

CardNext ==
    \/ UploadCall
    \/ UploadAgain
    \/ CloneCall
    \/ \E which \in {"card", "other"}, parameters \in PrepareParameters :
          PrepareCall(which, parameters)
    \/ RenderCall

CardSpec == CardInit /\ [][CardNext]_vars

\* The upload returned a Card.
Uploaded == call.op = "upload" /\ outcome # None /\ outcome[1].card # None

\* The pixel buffer is shorter than size * size * bpp.
Truncated(layer, bpp) == layer.len < layer.size * layer.size * bpp
TruncatedStructure(d) ==
    \/ Truncated(d.base, 4)
    \/ d.foil # None /\ Truncated(d.foil[1], 1)
    \/ d.etching # None /\ Truncated(d.etching[1], 1)

\* C11: the binding of an uploaded Card has exactly the slots 0, 1 and 2;
\* slot 0 is the view of the base texture, slot 1 the view of the foil texture
\* when the Structure has a foil and the base view otherwise, slot 2 the view
\* of the etching texture when the Structure has an etching and the base view
\* otherwise. With neither foil nor etching all three slots hold the base view.
C11_AllSlotsBound ==
    Uploaded =>
        LET card == outcome[1].card[1]
            d    == call.definition
            view(name) == [view_of |-> name]
        IN /\ DOMAIN card.binding = {0, 1, 2}
           /\ card.base.id = "base"
           /\ card.binding[0] = view("base")
           /\ card.binding[1] = IF d.foil # None THEN view("foil") ELSE view("base")
           /\ card.binding[2] = IF d.etching # None THEN view("etching") ELSE view("base")
           /\ (d.foil # None) = (card.foil # None /\ card.foil[1].id = "foil")
           /\ (d.etching # None) = (card.etching # None /\ card.etching[1].id = "etching")
           /\ (d.foil = None /\ d.etching = None =>
                 \A slot \in 0..2 : card.binding[slot] = card.binding[0])

\* A Card uploaded from a Structure with an etching and no foil: slot 1 falls
\* back to the base view while slot 2 holds the etching view.
C11_Witness ==
    /\ Uploaded
    /\ call.definition.foil = None
    /\ call.definition.etching # None
    /\ outcome[1].card[1].binding[1] = outcome[1].card[1].binding[0]
    /\ outcome[1].card[1].binding[2] # outcome[1].card[1].binding[0]

\* C12: a render records, in this order, the pipeline program, the uniform
\* binding set at group 0, the Card's texture binding set at group 1, the
\* Card's instance buffer at vertex slot 0, and one draw of 6 vertices and
\* 1 instance; it records nothing else.
C12_RenderCommands ==
    (Uploaded /\ outcome[1].pass # <<>>) =>
        LET pass == outcome[1].pass
            card == outcome[1].card[1]
            draws == {i \in 1..Len(pass) : pass[i].cmd = "draw"}
        IN /\ [i \in 1..Len(pass) |-> pass[i].cmd]
                = <<"set_pipeline", "set_bind_group", "set_bind_group",
                    "set_vertex_buffer", "draw">>
           /\ pass[1].raw = LibraryPipeline.id
           /\ pass[2].index = 0 /\ pass[2].group = [uniforms_of |-> LibraryPipeline.id]
           /\ pass[3].index = 1 /\ pass[3].group = card.binding
           /\ pass[4].slot = 0 /\ pass[4].buffer = card.instance
           /\ Cardinality(draws) = 1
           /\ \A i \in draws : /\ Cardinality(pass[i].vertices) = 6
                               /\ Cardinality(pass[i].instances) = 1

\* A prepared Card has been rendered.
C12_Witness ==
    /\ Uploaded
    /\ outcome[1].last = Some([which |-> "card", parameters |-> Parameters([x |-> 0, y |-> 0, width |-> 1, height |-> 1], QuaternionDefault)])
    /\ outcome[1].pass # <<>>

\* C13: an uploaded Card records the width of the Structure and the size of
\* its base layer as height, whatever the foil and the etching are.
C13_CardDimensions ==
    Uploaded =>
        /\ outcome[1].card[1].width = call.definition.width
        /\ outcome[1].card[1].height = call.definition.base.size

\* A Card whose width differs from its base size and whose foil has another
\* size than the base.
C13_Witness ==
    /\ Uploaded
    /\ call.definition.width # call.definition.base.size
    /\ call.definition.foil # None
    /\ call.definition.foil[1].size # call.definition.base.size
    /\ outcome[1].card[1].height = call.definition.base.size

Q(x, y, z, w) == Quat(Vec(x, y, z), w)

\* Quaternions handed to Mul: the identity, the zero quaternion, unit and
\* non-unit ones, with whole and fractional components.
Quaternions ==
    {QuaternionDefault,
     Q(Num(0), Num(0), Num(0), Num(0)),
     Q(Num(1), Num(0), Num(0), Num(0)),
     Q(Num(0), Num(1), Num(0), Num(0)),
     Q(Num(1), Num(2), Num(3), Num(4)),
     Q(Num(1), Num(-1), Num(0), Num(2)),
     Q(<<1, 2>>, <<1, 2>>, <<1, 2>>, <<1, 2>>),
     Q(Num(0), Num(0), <<3, 5>>, <<4, 5>>),
     Q(Num(-2), Num(1), Num(0), Num(-1))}

\* Unit vectors handed to from_radians as the axis.
Axes ==
    {VectorX, VectorY, VectorZ,
     Vec(Num(0), Num(0), Num(-1)),
     Vec(<<3, 5>>, <<4, 5>>, Num(0)),
     Vec(<<2, 3>>, <<-1, 3>>, <<2, 3>>)}

\* Quaternions handed to normalize: their length is a fraction.
Lengths ==
    {Q(Num(0), Num(0), Num(0), Num(0)),
     Q(Num(0), Num(0), Num(3), Num(4)),
     Q(Num(1), Num(1), Num(1), Num(1)),
     Q(Num(-2), Num(0), Num(0), Num(0)),
     Q(<<1, 2>>, <<-1, 2>>, <<1, 2>>, <<-1, 2>>),
     Q(Num(2), Num(-4), Num(5), Num(6)),
     Q(<<1, 3>>, <<2, 3>>, Num(0), <<2, 3>>)}

QuaternionInit ==
    /\ ShowcaseInit
    /\ call \in {[op |-> "mul", q1 |-> q1, q2 |-> q2, q3 |-> q3] :
                    q1 \in Quaternions, q2 \in Quaternions, q3 \in Quaternions}
          \cup {[op |-> "from_radians", a |-> a, angle |-> angle, q |-> q] :
                    a \in Axes, angle \in Angles, q \in Quaternions}
          \cup {[op |-> "normalize", q |-> q] : q \in Lengths}
          \cup {[op |-> "to_euler", angle |-> angle] : angle \in EulerAngles}
    /\ outcome = None
    /\ UpdateInit
    /\ WindowInit

\* q1 * q2, q2 * q1, (q1 * q2) * q3 and q1 * (q2 * q3).
MulCall ==
    /\ call.op = "mul"
    /\ outcome = None
    /\ outcome' = Some([product |-> QMul(call.q1, call.q2),
                        reverse |-> QMul(call.q2, call.q1),
                        left    |-> QMul(QMul(call.q1, call.q2), call.q3),
                        right   |-> QMul(call.q1, QMul(call.q2, call.q3))])
    /\ UNCHANGED <<call, showcaseVars, updateVars, windowVars>>

\* Quaternion::from_radians(a, angle), then composed with q, then normalized.
FromRadiansCall ==
    /\ call.op = "from_radians"
    /\ outcome = None
    /\ LET rotation == FromRadians(call.a, call.angle)
       IN outcome' = Some([rotation   |-> rotation,
                           composed   |-> QMul(rotation, call.q),
                           normalized |-> Normalize(rotation)])
    /\ UNCHANGED <<call, showcaseVars, updateVars, windowVars>>

\* q.normalize()
NormalizeCall ==
    /\ call.op = "normalize"
    /\ outcome = None
    /\ outcome' = Some([normalized |-> Normalize(call.q)])
    /\ UNCHANGED <<call, showcaseVars, updateVars, windowVars>>

\* The fold of to_euler applied to an angle, and then to its own result.
FoldCall ==
    /\ call.op = "to_euler"
    /\ IF outcome = None
       THEN outcome' = Some(<<NormalizeAngle(call.angle)>>)
       ELSE /\ Len(outcome[1]) < MaxFolds
            /\ outcome' = Some(Append(outcome[1],
                                      NormalizeAngle(outcome[1][Len(outcome[1])])))
    /\ UNCHANGED <<call, showcaseVars, updateVars, windowVars>>

QuaternionNext ==
    \/ MulCall
    \/ FromRadiansCall
    \/ NormalizeCall
    \/ FoldCall

QuaternionSpec == QuaternionInit /\ [][QuaternionNext]_vars

Returned(op) == call.op = op /\ outcome # None

\* |a|^2 + w^2, written out.
NormSquared(q) ==
    FAdd(FAdd(FMul(q.a.x, q.a.x), FMul(q.a.y, q.a.y)),
         FAdd(FMul(q.a.z, q.a.z), FMul(q.w, q.w)))

\* C15: from_radians with an angle of 0 returns the identity, the zero vector
\* part with w = 1, which is Quaternion::default(), for Vector::X as for any
\* other axis; composing it on the left of any q gives q.
C15_IdentityRotation ==
    (Returned("from_radians") /\ call.angle = "0") =>
        /\ outcome[1].rotation = Q(Num(0), Num(0), Num(0), Num(1))
        /\ outcome[1].rotation = QuaternionDefault
        /\ outcome[1].composed = call.q

\* from_radians(Vector::X, 0) was composed with a q that is not the identity.
C15_Witness ==
    /\ Returned("from_radians")
    /\ call.angle = "0"
    /\ call.a = VectorX
    /\ call.q = Q(Num(1), Num(2), Num(3), Num(4))
    /\ outcome[1].composed = call.q

\* C16: over exact arithmetic the composition is associative:
\* (q1 * q2) * q3 = q1 * (q2 * q3).
C16_Associative ==
    Returned("mul") => outcome[1].left = outcome[1].right

\* Three quaternions that do not commute were composed both ways.
C16_Witness ==
    /\ Returned("mul")
    /\ outcome[1].product # outcome[1].reverse
    /\ QMul(call.q2, call.q3) # QMul(call.q3, call.q2)
    /\ outcome[1].left = outcome[1].right
    /\ outcome[1].left # QuaternionDefault

\* C17: q1 * q2 has the vector part a1*w2 + a2*w1 + cross(a1, a2), with
\* cross(a1, a2) = (y1*z2 - z1*y2, z1*x2 - x1*z2, x1*y2 - y1*x2), and the
\* scalar part w1*w2 - (x1*x2 + y1*y2 + z1*z2); q2 * q1 has the same scalar
\* part and the vector part a1*w2 + a2*w1 - cross(a1, a2).
C17_HamiltonProduct ==
    Returned("mul") =>
        LET a1 == call.q1.a
            w1 == call.q1.w
            a2 == call.q2.a
            w2 == call.q2.w
            cx == FSub(FMul(a1.y, a2.z), FMul(a1.z, a2.y))
            cy == FSub(FMul(a1.z, a2.x), FMul(a1.x, a2.z))
            cz == FSub(FMul(a1.x, a2.y), FMul(a1.y, a2.x))
            sx == FAdd(FMul(a1.x, w2), FMul(a2.x, w1))
            sy == FAdd(FMul(a1.y, w2), FMul(a2.y, w1))
            sz == FAdd(FMul(a1.z, w2), FMul(a2.z, w1))
            w  == FSub(FMul(w1, w2),
                       FAdd(FMul(a1.x, a2.x), FAdd(FMul(a1.y, a2.y), FMul(a1.z, a2.z))))
        IN /\ outcome[1].product = Q(FAdd(sx, cx), FAdd(sy, cy), FAdd(sz, cz), w)
           /\ outcome[1].reverse = Q(FSub(sx, cx), FSub(sy, cy), FSub(sz, cz), w)

\* Two quaternions whose vector parts have a cross product with no zero
\* component were multiplied, and the two orders differ.
C17_Witness ==
    /\ Returned("mul")
    /\ call.q1 = Q(Num(1), Num(2), Num(3), Num(4))
    /\ call.q2 = Q(Num(1), Num(-1), Num(0), Num(2))
    /\ outcome[1].product.a # outcome[1].reverse.a
    /\ outcome[1].product.w = outcome[1].reverse.w

\* C18: the fold maps a negative angle a to -a and a non-negative angle a to
\* (2pi - a) mod 2pi, and every angle of [-pi, pi] to an angle of [0, 2pi).
C18_FoldRange ==
    Returned("to_euler") =>
        LET a == call.angle
            r == outcome[1][1]
        IN /\ a < 0 => r = -a
           /\ a >= 0 => r = (2 * Pi - a) % (2 * Pi)
           /\ (a > 0) => r = 2 * Pi - a
           /\ (a = 0) => r = 0
           /\ 0 <= r /\ r < 2 * Pi

\* The fold was applied to 0, where 2pi - a leaves [0, 2pi) and the
\* remainder brings it back.
C18_Witness ==
    /\ Returned("to_euler")
    /\ call.angle = 0
    /\ outcome[1][1] = 0

C20_Normalize ==
    /\ Returned("from_radians") =>
          /\ NormSquared(Quat(call.a, Num(0))) = Num(1)
          /\ NormSquared(outcome[1].normalized) = Num(1)
    /\ Returned("normalize") =>
          LET d == FSqrt(NormSquared(call.q))
              n == outcome[1].normalized
          IN IF d = Num(0)
             THEN n = Q(NaN, NaN, NaN, NaN)
             ELSE /\ NormSquared(n) = Num(1)
                  /\ Q(FMul(n.a.x, d), FMul(n.a.y, d), FMul(n.a.z, d), FMul(n.w, d)) = call.q

\* A rotation about an axis that is not a coordinate axis, by an angle that
\* is not a multiple of pi, was normalized.
C20_Witness ==
    /\ Returned("from_radians")
    /\ call.a = Vec(<<2, 3>>, <<-1, 3>>, <<2, 3>>)
    /\ call.angle = "2a"
    /\ NormSquared(outcome[1].normalized) = Num(1)

\* A step in which Card::prepare was called, and the Card it was called on.
PrepareCalled ==
    /\ call.op = "upload"
    /\ outcome # None
    /\ outcome' # None
    /\ outcome'[1].last # None
    /\ outcome'[1].last # outcome[1].last
Target(o) == IF o.last[1].which = "card" THEN o.card[1] ELSE o.other[1]

\* C21: a call of Card::prepare leaves in the Card's instance buffer exactly
\* the ten words of one instance record, from offset 0: the viewport
\* (x, y, width, height) of the parameters, the (width, height) recorded at
\* upload, and the rotation (a.x, a.y, a.z, w) of the parameters. The buffer
\* is the one allocated at upload, of the size of one instance record, and
\* the Card's width, height, textures and binding are as before the call.
C21_PrepareWritesOneInstance ==
    [][PrepareCalled =>
        LET before     == IF outcome'[1].last[1].which = "card"
                          THEN outcome[1].card[1] ELSE outcome[1].other[1]
            after      == Target(outcome'[1])
            parameters == outcome'[1].last[1].parameters
            viewport   == parameters.viewport
            rotation   == parameters.rotation
        IN /\ before.instance.size = 40
           /\ Len(before.instance.words) = 10
           /\ after.instance.size = before.instance.size
           /\ after.instance.id = before.instance.id
           /\ after.instance.words =
                <<<<viewport.x, 1>>, <<viewport.y, 1>>,
                  <<viewport.width, 1>>, <<viewport.height, 1>>,
                  <<before.width, 1>>, <<before.height, 1>>,
                  rotation.a.x, rotation.a.y, rotation.a.z, rotation.w>>
           /\ after.width = before.width
           /\ after.height = before.height
           /\ after.binding = before.binding
           /\ after.base = before.base
           /\ after.foil = before.foil
           /\ after.etching = before.etching]_vars

\* A Card that is wider than high was prepared with a viewport whose four
\* values differ and with a rotation that is not the identity.
C21_Witness ==
    /\ Uploaded
    /\ outcome[1].last = Some([which |-> "card",
                               parameters |-> Parameters([x |-> 1, y |-> 2, width |-> 3, height |-> 4],
                                                         FromRadians(VectorY, "2a"))])
    /\ outcome[1].card[1].width > outcome[1].card[1].height
    /\ outcome[1].card[1].instance.words[3] = Num(3)
    /\ outcome[1].card[1].instance.words[5] = Num(outcome[1].card[1].width)

\* The instance data Pipeline::render reads for a Card: the words of the
\* buffer bound at vertex slot 0.
InstanceData(card) == Render(LibraryPipeline, card)[4].buffer.words

\* C22: with two Cards of one Pipeline, a call of Card::prepare on one of
\* them leaves the instance data that Pipeline::render uses for the other
\* as it was.
C22_CardsAreIndependent ==
    [][(PrepareCalled /\ outcome[1].card # None /\ outcome[1].other # None) =>
        IF outcome'[1].last[1].which = "card"
        THEN InstanceData(outcome'[1].other[1]) = InstanceData(outcome[1].other[1])
        ELSE InstanceData(outcome'[1].card[1]) = InstanceData(outcome[1].card[1])]_vars

\* The calls a step has appended to the trace of the frame, and the step in
\* which the primitive at idx has been drawn.
NewCalls == [i \in 1..(Len(trace') - Len(trace)) |-> trace'[Len(trace) + i].op]
DrawStep == phase = "draw" /\ (idx' # idx \/ phase' # phase)

\* C23: Holofoil::prepare uploads a Card exactly when the cache is empty once
\* the Watcher was polled, and otherwise takes the cached Card. When the
\* bounds snap, it calls configure and then Card::prepare and the cache holds
\* the Card afterwards; when they do not, it calls neither and the cache is
\* left empty. Holofoil::draw calls Pipeline::render exactly when the cache
\* holds a Card, and never changes the cache.
C23_CacheProtocol ==
    [][\A v \in Viewers :
        /\ (PrepareStep /\ idx = v) =>
              LET adopted == \E i \in DOMAIN NewCalls : NewCalls[i] = "adopt"
                  empty   == adopted \/ cache[v] = None
                  rest    == SelectSeq(NewCalls, LAMBDA op : op \notin {"adopt", "upload"})
              IN /\ (\E i \in DOMAIN NewCalls : NewCalls[i] = "upload") = empty
                 /\ \A b \in Bounds :
                       Prepare(v, b) =>
                          IF b.width >= 1 /\ b.height >= 1
                          THEN /\ rest = <<"configure", "prepare">>
                               /\ cache'[v] # None
                               /\ ~empty => cache'[v][1].layout = cache[v][1].layout
                          ELSE /\ rest = <<>>
                               /\ cache'[v] = None
                 /\ \A u \in Viewers \ {v} : cache'[u] = cache[u]
        /\ (DrawStep /\ idx = v) =>
              /\ cache' = cache
              /\ IF cache[v] # None
                 THEN NewCalls = <<"render">> /\ trace'[Len(trace')].viewer = v
                 ELSE NewCalls = <<>>]_vars

\* A frame is over in which a primitive took its cached Card, could not snap
\* its bounds and so left its cache empty and was not drawn, while another
\* primitive was drawn.
C23_Witness ==
    /\ phase = "present"
    /\ \E v \in Viewers :
          /\ cache[v] = None
          /\ \A i \in 1..Len(trace) : trace[i].viewer # v
          /\ \E j \in Calls("render") : trace[j].viewer # v

\* The values carried by the messages.
Spins == {[x |-> 1, y |-> 0], [x |-> 0, y |-> 1], [x |-> -1, y |-> 1]}
Dragged == {QuaternionDefault,
            Q(Num(1), Num(0), Num(0), Num(0)),
            Q(Num(0), Num(0), Num(-1), Num(0))}
Eulers == {Vec(0, 0, 0), Vec(Pi, 0, 0), Vec(0, Pi, 0), Vec(Pi, 0, Pi)}
Iterations == {1, 2}

\* update(message, t) is called at an Instant t that is not before the last.
Received(name, t) ==
    /\ t \in now..MaxNow
    /\ now' = t
    /\ message' = name
    /\ UNCHANGED <<libraryVars, showcaseVars, windowVars>>

\* Message::Booted, the Task that Showcase::new returns.
Booted(t) ==
    /\ message = "none"
    /\ Received("Booted", t)
    /\ mode' = ModeSpin(t)
    /\ UNCHANGED viewer

\* Message::FrameRequested. The subscription is there while Spinning; a
\* frame that was requested before the mode changed is still delivered.
FrameRequestedSkipsIdleTest(t) ==
    /\ Received("FrameRequested", t)
    /\ LET spinning == IF mode.kind = "Spinning" THEN mode ELSE ModeSpin(now)
           turns    == [x |-> spinning.spin.x * (t - spinning.last_tick),
                        y |-> spinning.spin.y * (t - spinning.last_tick)]
           spin     == QMul(FromRadians(VectorX, HalfTurns(turns.y)),
                            FromRadians(VectorY, HalfTurns(turns.x)))
           rotation == Normalize(QMul(spin, viewer.rotation))
       IN /\ viewer' = [viewer EXCEPT !.rotation = rotation, !.euler = ToEuler(rotation)]
          /\ mode' = IF mode.kind = "Spinning" THEN [mode EXCEPT !.last_tick = t] ELSE mode
FrameRequested(t) ==
    /\ Received("FrameRequested", t)
    /\ IF mode.kind = "Spinning"
       THEN LET delta    == [x |-> mode.spin.x * (t - mode.last_tick),
                             y |-> mode.spin.y * (t - mode.last_tick)]
                spin     == QMul(FromRadians(VectorX, HalfTurns(delta.y)),
                                 FromRadians(VectorY, HalfTurns(delta.x)))
                rotation == Normalize(QMul(spin, viewer.rotation))
            IN /\ viewer' = [viewer EXCEPT !.rotation = rotation,
                                           !.euler = ToEuler(rotation)]
               /\ mode' = [mode EXCEPT !.last_tick = t]
       ELSE UNCHANGED <<viewer, mode>>

\* Message::Grabbed
Grabbed(t) ==
    /\ Received("Grabbed", t)
    /\ mode' = Idle
    /\ UNCHANGED viewer

\* Message::RotationChanged
RotationChanged(rotation, t) ==
    /\ Received("RotationChanged", t)
    /\ viewer' = [viewer EXCEPT !.rotation = rotation, !.euler = ToEuler(rotation)]
    /\ UNCHANGED mode

\* Message::RotationEulerChanged
RotationEulerChanged(rotation, t) ==
    /\ Received("RotationEulerChanged", t)
    /\ viewer' = [viewer EXCEPT
                     !.rotation = QMul(QMul(FromRadians(VectorY, HalfTurns(rotation.y \div Pi)),
                                            FromRadians(VectorX, HalfTurns(rotation.x \div Pi))),
                                       FromRadians(VectorZ, HalfTurns(rotation.z \div Pi))),
                     !.euler = rotation]
    /\ mode' = Idle

\* Message::ToggleAutoRotate
ToggleAutoRotate(auto_rotate, t) ==
    /\ Received("ToggleAutoRotate", t)
    /\ mode' = IF auto_rotate THEN ModeSpin(t) ELSE Idle
    /\ UNCHANGED viewer

\* Message::Spin
Spin(spin, t) ==
    /\ Received("Spin", t)
    /\ mode' = Spinning(spin, t)
    /\ UNCHANGED viewer

\* Message::SamplesChanged
ViewerSamplesChanged(n_samples, t) ==
    /\ Received("SamplesChanged", t)
    /\ viewer' = [viewer EXCEPT !.configuration.n_samples = n_samples]
    /\ UNCHANGED mode

\* Message::MaxIterationsChanged
MaxIterationsChanged(max_iterations, t) ==
    /\ Received("MaxIterationsChanged", t)
    /\ viewer' = [viewer EXCEPT !.configuration.max_iterations = max_iterations]
    /\ UNCHANGED mode

UpdateNext ==
    \E t \in 0..MaxNow :
        \/ Booted(t)
        \/ FrameRequested(t)
        \/ Grabbed(t)
        \/ \E rotation \in Dragged : RotationChanged(rotation, t)
        \/ \E rotation \in Eulers : RotationEulerChanged(rotation, t)
        \/ \E auto_rotate \in BOOLEAN : ToggleAutoRotate(auto_rotate, t)
        \/ \E spin \in Spins : Spin(spin, t)
        \/ \E n_samples \in Samples : ViewerSamplesChanged(n_samples, t)
        \/ \E max_iterations \in Iterations : MaxIterationsChanged(max_iterations, t)

UpdateSpec == Init /\ [][UpdateNext]_vars

\* C24: Booted, Spin and ToggleAutoRotate(true) leave the mode Spinning;
\* Grabbed, RotationEulerChanged and ToggleAutoRotate(false) leave it Idle;
\* RotationChanged, SamplesChanged, MaxIterationsChanged and FrameRequested
\* leave it Idle when it was Idle and Spinning when it was Spinning; a
\* FrameRequested handled in Idle leaves rotation and euler as they were.
C24_ModeStateMachine ==
    [][\A t \in 0..MaxNow :
        /\ Booted(t) => mode'.kind = "Spinning"
        /\ \A spin \in Spins : Spin(spin, t) => mode'.kind = "Spinning"
        /\ ToggleAutoRotate(TRUE, t) => mode'.kind = "Spinning"
        /\ Grabbed(t) => mode'.kind = "Idle"
        /\ \A rotation \in Eulers : RotationEulerChanged(rotation, t) => mode'.kind = "Idle"
        /\ ToggleAutoRotate(FALSE, t) => mode'.kind = "Idle"
        /\ message' \in {"RotationChanged", "SamplesChanged", "MaxIterationsChanged",
                         "FrameRequested"}
              => mode'.kind = mode.kind
        /\ (message' = "FrameRequested" /\ mode.kind = "Idle")
              => /\ viewer'.rotation = viewer.rotation
                 /\ viewer'.euler = viewer.euler
        /\ (message' = "FrameRequested" /\ viewer'.rotation # viewer.rotation)
              => mode.kind = "Spinning"]_vars

\* A FrameRequested was handled in Idle, later than the tick that had last
\* advanced the rotation away from the identity.
C24_Witness ==
    /\ message = "FrameRequested"
    /\ mode.kind = "Idle"
    /\ now = MaxNow
    /\ viewer.rotation # QuaternionDefault
    /\ viewer.euler # Vec(0, 0, 0)

\* PhysicalSize values of the window.
Sizes == {[width |-> w, height |-> h] : w \in 1..2, h \in 1..2}
WindowEvents ==
    {[kind |-> "Resized", size |-> s] : s \in Sizes}
    \cup {[kind |-> k, size |-> [width |-> 0, height |-> 0]] :
             k \in {"RedrawRequested", "CloseRequested", "Focused"}}

\* resumed: the first Pipeline is built and the Card uploaded with it; the
\* instance buffer of the n-th upload is the n-th buffer of the device.
Resumed ==
    /\ winit.state = "Loading"
    /\ ~exiting
    /\ LET p == NewPipeline(1, ReadSource(source))
       IN winit' = Ready(p, Upload(p, p.id, Umbreon)[1], [width |-> 1, height |-> 1])
    /\ UNCHANGED <<exiting, frame>>
    /\ UNCHANGED <<libraryVars, showcaseVars, updateVars>>

\* window_event
WindowEvent(event) ==
    /\ IF exiting \/ winit.state # "Ready"
       THEN UNCHANGED windowVars
       ELSE CASE event.kind = "Resized" ->
                    /\ winit' = [winit EXCEPT !.size = event.size]
                    /\ UNCHANGED <<exiting, frame>>
              [] event.kind = "RedrawRequested" ->
                    LET viewport == [x |-> 0, y |-> 0, width |-> winit.size.width,
                                     height |-> winit.size.height]
                        card     == CardPrepare(winit.card[1],
                                                Parameters(viewport, QuaternionDefault))
                    IN /\ winit' = [winit EXCEPT !.card = card]
                       /\ frame' = Some(Render(winit.pipeline[1], card[1]))
                       /\ UNCHANGED exiting
              [] event.kind = "CloseRequested" ->
                    /\ exiting' = TRUE
                    /\ UNCHANGED <<winit, frame>>
              [] OTHER -> UNCHANGED windowVars
    /\ UNCHANGED <<libraryVars, showcaseVars, updateVars>>

\* user_event: Reload. The watcher sends it when shader.wgsl was written;
\* MaxReloads of them take effect.
UserEventKeepsCard ==
    /\ winit.state = "Ready" => winit.pipeline[1].id <= MaxReloads
    /\ IF exiting \/ winit.state # "Ready"
       THEN UNCHANGED windowVars
       ELSE LET p == NewPipeline(winit.pipeline[1].id + 1, ReadSource(source))
            IN /\ winit' = [winit EXCEPT !.pipeline = Some(p)]
               /\ UNCHANGED <<exiting, frame>>
    /\ UNCHANGED <<libraryVars, showcaseVars, updateVars>>
UserEvent ==
    /\ winit.state = "Ready" => winit.pipeline[1].id <= MaxReloads
    /\ IF exiting \/ winit.state # "Ready"
       THEN UNCHANGED windowVars
       ELSE LET p == NewPipeline(winit.pipeline[1].id + 1, ReadSource(source))
            IN /\ winit' = [winit EXCEPT !.pipeline = Some(p),
                                         !.card = Upload(p, p.id, Umbreon)]
               /\ UNCHANGED <<exiting, frame>>
    /\ UNCHANGED <<libraryVars, showcaseVars, updateVars>>

WindowNext ==
    \/ Resumed
    \/ \E event \in WindowEvents : WindowEvent(event)
    \/ UserEvent

WindowSpec == Init /\ [][WindowNext]_vars

\* C25: every redraw binds the binding of a Card that was uploaded by the
\* Pipeline that draws it, a Reload handled in Ready leaves a new Pipeline
\* together with a Card uploaded by it, and a Reload or a window event
\* handled in Loading, or while the event loop is exiting, changes nothing.
C25_SynchronousReload ==
    [][/\ (frame' # None /\ frame' # frame) =>
             /\ winit.card[1].layout = winit.pipeline[1].id
             /\ frame'[1][1].raw = winit'.pipeline[1].id
             /\ frame'[1][3].group = winit'.card[1].binding
             /\ winit'.card[1].layout = frame'[1][1].raw
       /\ (UserEvent /\ winit.state = "Ready" /\ ~exiting) =>
             /\ winit'.pipeline[1].id # winit.pipeline[1].id
             /\ winit'.card[1].layout = winit'.pipeline[1].id
             /\ winit'.card[1].instance.id # winit.card[1].instance.id
       /\ (winit'.state = "Ready" => winit'.card[1].layout = winit'.pipeline[1].id)
       /\ (((UserEvent \/ \E event \in WindowEvents : WindowEvent(event))
            /\ (winit.state = "Loading" \/ exiting))
              => UNCHANGED windowVars)
       /\ (winit.state = "Loading" \/ exiting) =>
             (winit' = winit \/ (Resumed /\ ~exiting))]_vars

\* A redraw has drawn with the Pipeline of the second Reload, and the event
\* loop is exiting since.
C25_Witness ==
    /\ winit.state = "Ready"
    /\ exiting
    /\ frame # None
    /\ winit.pipeline[1].id = 3
    /\ frame[1][1].raw = 3
    /\ winit.card[1].layout = 3

====
